---------------------------- MODULE Spec2Model ----------------------------
(***************************************************************************)
(* Batch import of the create-note plugin, in its two revisions:           *)
(*   "enm" - src/src/main.ts ribbon callback -> ExtNoteManager             *)
(*           (src/src/ExtNoteManager.ts, createNotesForFiles)              *)
(*   "pf"  - src/unnamed/part_004 ribbon callback -> processFiles          *)
(*                                                                         *)
(* File names are sequences of tokens (<<"a", ".", "pdf">> is a.pdf), so   *)
(* that extname, basename and the title sanitising regex are computed.     *)
(* Note contents are sequences of parts [t, v]: template text, the mail    *)
(* block, embed links.  File contents (bytes) are strings.                 *)
(***************************************************************************)
EXTENDS Integers, Sequences, FiniteSets, TLC

\* ------------------------------------------------------------------ bounds
MaxFiles == 2
MaxAtts == 2

\* ------------------------------------------------------------ the universe
NamePdf == <<"a", ".", "pdf">>
NameTxt == <<"a", "#", ".", "txt">>
NameEml == <<"a", ".", "eml">>
NameMd == <<"n", ".", "md">>
NameHidden == <<".", "h">>
NameSub == <<"sub">>
Names == {NamePdf, NameTxt, NameEml, NameMd, NameHidden, NameSub}

AttX == <<"x", ".", "pdf">>
AttY == <<"y">>
\* an attachment may carry the name of the mail file itself
AttNames == {AttX, AttY, NameEml}

Range(s) == {s[i] : i \in DOMAIN s}

SeqsUpTo(S, n) == UNION {[1..k -> S] : k \in 0..n}

AttLists == SeqsUpTo(AttNames, MaxAtts)

\* bytes of the i-th attachment of a mail
AttBytes(i) == <<"att", ToString(i)>>

\* bytes of an input file
FileBytes(name) == <<"file">> \o name

\* run ids handed out by nanoid(): pairwise distinct
UuidPool == <<"u1", "u2", "u3", "u4", "u5", "u6", "u7", "u8">>

\* what an input folder entry of a given name can be
Variants(name) ==
    IF name = NameSub
    THEN {[kind |-> "dir", inVault |-> TRUE, parses |-> TRUE, atts |-> <<>>, data |-> FileBytes(name)]}
    ELSE IF name = NameEml
    THEN {[kind |-> "file", inVault |-> TRUE, parses |-> TRUE, atts |-> a, data |-> FileBytes(name)] : a \in AttLists}
         \cup {[kind |-> "file", inVault |-> TRUE, parses |-> FALSE, atts |-> <<>>, data |-> FileBytes(name)]}
    ELSE IF name \in {NamePdf, NameHidden}
    THEN {[kind |-> "file", inVault |-> v, parses |-> TRUE, atts |-> <<>>, data |-> FileBytes(name)] : v \in BOOLEAN}
    ELSE {[kind |-> "file", inVault |-> TRUE, parses |-> TRUE, atts |-> <<>>, data |-> FileBytes(name)]}

\* readdirSync lists the folder in the order the file system keeps it: here
\* by name, ascending or descending
DirOrderAll == <<NameSub, NameHidden, NameTxt, NameEml, NamePdf, NameMd>>

Reverse(s) == [i \in DOMAIN s |-> s[Len(s) + 1 - i]]

IsSubSeq(s, full) ==
    \E f \in [DOMAIN s -> DOMAIN full] :
        /\ \A i \in DOMAIN s : full[f[i]] = s[i]
        /\ \A i, j \in DOMAIN s : i < j => f[i] < f[j]

Listings ==
    {s \in SeqsUpTo(Names, MaxFiles) : IsSubSeq(s, DirOrderAll) \/ IsSubSeq(s, Reverse(DirOrderAll))}

\* the input folders with the given listing
RECURSIVE InputDirs(_)
InputDirs(order) ==
    IF order = <<>> THEN {<<>>}
    ELSE {[n \in DOMAIN d \cup {Head(order)} |-> IF n = Head(order) THEN e ELSE d[n]] :
            d \in InputDirs(Tail(order)), e \in Variants(Head(order))}

Paths == {"attach", "input", "note", "tplDir", "tplFile"}

\* all required paths exist, or exactly one of them is missing (a missing
\* template folder takes the template file with it)
ExistsSets == {Paths} \cup {Paths \ {p} : p \in Paths \ {"tplDir"}} \cup {Paths \ {"tplDir", "tplFile"}}

SettingsSet == [useTemplate : BOOLEAN, attachEmlFile : BOOLEAN, deleteEmlFiles : BOOLEAN, ignoreHiddenFiles : BOOLEAN]

\* the template file: text with both placeholders
Template == <<"Created", "%", "date", "%", "id", "%", "id", "%">>

\* ----------------------------------------------------------- path helpers
LastDot(name) ==
    LET dots == {i \in DOMAIN name : name[i] = "."}
    IN IF dots = {} THEN 0 ELSE CHOOSE i \in dots : \A j \in dots : j <= i

\* path.extname: from the last dot on, empty when there is none or when the
\* only dot is the first character
Extname(name) ==
    IF LastDot(name) <= 1 THEN <<>> ELSE SubSeq(name, LastDot(name), Len(name))

\* path.basename(name, ext)
Basename(name, ext) == SubSeq(name, 1, Len(name) - Len(ext))

\* TFile.extension: the extension without its dot
Extension(name) == IF Extname(name) = <<>> THEN <<>> ELSE Tail(Extname(name))

StartsWithDot(name) == Len(name) > 0 /\ name[1] = "."

WordTokens == {"a", "n", "h", "x", "y", "sub", "pdf", "txt", "eml", "md"}

\* title.replace(/[^\w\s-]/g, ''): keeps word characters, blanks and dashes
Sanitize(s) == SelectSeq(s, LAMBDA t : t \in WordTokens \cup {" ", "-"})

\* part_004: createDatePrefix() gives YYYYMMDD
createDatePrefixPF == "YYYYMMDD"

\* ExtNoteManager: createDatePrefix() gives YYYY-MM-DD
createDatePrefix == "YYYY-MM-DD"

getFormattedISODate == "YYYY-MM-DD HH:MM"

\* part_004 createNameForNote: prefix + " " + sanitised base name + ".md"
createNameForNote(fileName) ==
    <<createDatePrefixPF, " ">> \o Sanitize(Basename(fileName, Extname(fileName))) \o <<".", "md">>

\* <uuid>_<name>
TargetName(uuid, name) == <<uuid, "_">> \o name

\* ---------------------------------------------------------- note contents
Text(tok) == [t |-> "text", v |-> <<tok>>]
MailBlock(name) == [t |-> "mail", v |-> name]
Link(target) == [t |-> "link", v |-> target]

\* content.replace(/%date%/g, formattedDate).replace(/%id%/g, noteId)
\* template text is a sequence of chunks; a placeholder is three of them
DatePlaceholder == <<"%", "date", "%">>

IdPlaceholder == <<"%", "id", "%">>

MatchesAt(s, i, pat) ==
    /\ i \in DOMAIN s
    /\ i + Len(pat) - 1 <= Len(s)
    /\ SubSeq(s, i, i + Len(pat) - 1) = pat

\* String.prototype.replace with a /g pattern: the matches are taken from
\* left to right and do not overlap
RECURSIVE ReplaceFrom(_, _, _, _)
ReplaceFrom(s, i, pat, by) ==
    IF i > Len(s) THEN <<>>
    ELSE IF MatchesAt(s, i, pat) THEN <<by>> \o ReplaceFrom(s, i + Len(pat), pat, by)
    ELSE <<s[i]>> \o ReplaceFrom(s, i + 1, pat, by)

\* mutant: a pattern without the g flag, only the first match is replaced
ReplaceAll_FirstOnly(s, pat, by) ==
    LET hits == {i \in DOMAIN s : MatchesAt(s, i, pat)}
    IN IF hits = {} THEN s
       ELSE LET i == CHOOSE h \in hits : \A g \in hits : h <= g
            IN SubSeq(s, 1, i - 1) \o <<by>> \o SubSeq(s, i + Len(pat), Len(s))

ReplaceAll(s, pat, by) == ReplaceFrom(s, 1, pat, by)

\* the two replacements of createNoteContent / useTemplateForContent
Substitute(content, formattedDate, noteId) ==
    ReplaceAll(ReplaceAll(content, DatePlaceholder, formattedDate), IdPlaceholder, noteId)

RenderTemplate(tpl, noteId) ==
    LET newContent == Substitute(tpl, getFormattedISODate, noteId)
    IN [i \in DOMAIN newContent |-> Text(newContent[i])]

Links(content) == SelectSeq(content, LAMBDA p : p.t = "link")

\* ------------------------------------------------------------ notifications
Notice(msg, name, n) == [msg |-> msg, name |-> name, n |-> n]

\* ----------------------------------------------------------------- state
VARIABLES
    prog,            \* revision whose ribbon action is installed
    settings,        \* CreateNoteSettings
    exists,          \* required paths that exist
    dirOrder,        \* order in which readdirSync lists the input folder
    inputDir,        \* input folder: name -> entry
    inputDir0,       \* the input folder when the run was triggered
    attachDir,       \* attachment folder: name -> bytes
    noteDir,         \* note folder: name -> note content
    pc,              \* position of the batch run
    files,           \* listing taken by readdirSync
    idx,             \* loop position in files
    processedCount,
    nextId,          \* number of ids drawn from nanoid()
    noteUUID,        \* #noteUUID / uuid
    noteContent,     \* #noteContent / noteContent
    attachementList, \* #attachementList
    parsed,          \* parsed.attachments of the current mail
    attIdx,          \* position in parsed.attachments
    notices,         \* notifications shown, in order
    dispatchLog,     \* pipeline invocations, in order
    readLog,         \* input entries whose bytes were read
    tplSrc,          \* text of the template file
    clock,           \* what getFormattedISODate returns now
    rendered,        \* template renderings done: [src, at, id, out]
    gPos,            \* ensureAllFoldersExist: position in checks
    gLog,            \* paths asked of adapter.exists, in order
    gRes,            \* ensureAllFoldersExist: "none", "checking", "true" or "false"
    rnVault,         \* rename: path -> [text, links] of the files of the vault
    rnPath,          \* rename: path of the note the command is used on
    rnCount,         \* rename: invocations so far
    updateLinks,     \* host preference: renameFile updates links to the file
    suspended,       \* locals of the batch runs that wait at an await
    clicks           \* ribbon clicks made while a run was in progress

vars == <<prog, settings, exists, dirOrder, inputDir, inputDir0, attachDir, noteDir,
          pc, files, idx, processedCount, nextId, noteUUID, noteContent,
          attachementList, parsed, attIdx, notices, dispatchLog, readLog,
          tplSrc, clock, rendered, gPos, gLog, gRes,
          rnVault, rnPath, rnCount, updateLinks, suspended, clicks>>

\* state of the template renderer
render == <<tplSrc, clock, rendered>>

\* state of a stepwise run of ensureAllFoldersExist
guard == <<gPos, gLog, gRes>>

\* state of the rename command
rename == <<rnVault, rnPath, rnCount, updateLinks>>

\* the other batch runs
runs == <<suspended, clicks>>

world == <<prog, settings, exists, dirOrder, inputDir0, render, guard, rename, runs>>

\* state of a batch run
batch == <<inputDir, attachDir, noteDir, pc, files, idx, processedCount, nextId, noteUUID,
           noteContent, attachementList, parsed, attIdx, notices, dispatchLog, readLog>>

\* ------------------------------------------------------------ vault helpers
Remove(f, k) == [x \in DOMAIN f \ {k} |-> f[x]]
Put(f, k, val) == [x \in DOMAIN f \cup {k} |-> IF x = k THEN val ELSE f[x]]

\* vault.getAbstractFileByPath / getFileByPath on an input folder entry
IsTFile(name) == name \in DOMAIN inputDir /\ inputDir[name].inVault /\ inputDir[name].kind = "file"
IsTFolder(name) == name \in DOMAIN inputDir /\ inputDir[name].inVault /\ inputDir[name].kind = "dir"

\* vault.create / createBinary / rename / copy reject a taken target path or
\* a missing target folder
CanCreateIn(dir, folder, name) == folder \in exists /\ name \notin DOMAIN dir

\* readdirSync(inputFolderPath)
Readdir == SelectSeq(dirOrder, LAMBDA n : n \in DOMAIN inputDir)

\* mutant: the template file is checked whatever useTemplate is
GuardChecks_TemplateAlways(s) == <<"attach", "input", "note", "tplDir", "tplFile">>

\* ensureAllFoldersExist: the checks in order, the first missing one named
GuardChecks(s) ==
    <<"attach", "input", "note", "tplDir">> \o (IF s.useTemplate THEN <<"tplFile">> ELSE <<>>)

FirstMissing(s, ex) ==
    LET c == GuardChecks(s)
        bad == {i \in DOMAIN c : c[i] \notin ex}
    IN IF bad = {} THEN 0 ELSE CHOOSE i \in bad : \A j \in bad : i <= j

ensureAllFoldersExist(s, ex) == FirstMissing(s, ex) = 0

GuardNotices(s, ex) ==
    IF FirstMissing(s, ex) = 0 THEN <<>>
    ELSE <<Notice("does not exist", <<GuardChecks(s)[FirstMissing(s, ex)]>>, 0)>>

RenderIdle ==
    /\ tplSrc = Template
    /\ clock = getFormattedISODate
    /\ rendered = <<>>

GuardIdle ==
    /\ gPos = 1
    /\ gLog = <<>>
    /\ gRes = "none"

RunsIdle ==
    /\ suspended = <<>>
    /\ clicks = 0

RenameIdle ==
    /\ rnVault = <<>>
    /\ rnPath = [parent |-> "", base |-> <<>>, ext |-> ""]
    /\ rnCount = 0
    /\ updateLinks = FALSE

Init ==
    /\ prog \in {"enm", "pf"}
    /\ settings \in SettingsSet
    \* ExtNoteManager's CreateNoteSettings has no deleteEmlFiles
    /\ prog = "enm" => settings.deleteEmlFiles
    /\ exists \in ExistsSets
    /\ dirOrder \in IF "input" \in exists THEN Listings ELSE {<<>>}
    /\ inputDir \in InputDirs(dirOrder)
    /\ inputDir0 = inputDir
    /\ attachDir = <<>>
    /\ noteDir = <<>>
    /\ pc = "idle"
    /\ files = <<>>
    /\ idx = 1
    /\ processedCount = 0
    /\ nextId = 0
    /\ noteUUID = ""
    /\ noteContent = <<>>
    /\ attachementList = <<>>
    /\ parsed = <<>>
    /\ attIdx = 1
    /\ notices = <<>>
    /\ dispatchLog = <<>>
    /\ readLog = {}
    /\ RenderIdle
    /\ GuardIdle
    /\ RenameIdle
    /\ RunsIdle


\* ===================================================== part_004: processFiles
cur == files[idx]

Say(ns) == notices' = notices \o ns

\* moveInputFile / moveFile: getFileByPath, then copy or rename; every error
\* is caught inside and only notified
MoveSucceeds(src, target) == IsTFile(src) /\ CanCreateIn(attachDir, "attach", target)

AttachAfterMove(src, target) ==
    IF MoveSucceeds(src, target) THEN Put(attachDir, target, inputDir[src].data) ELSE attachDir

InputAfterMove(src, target, copyOnly) ==
    IF MoveSucceeds(src, target) /\ ~copyOnly THEN Remove(inputDir, src) ELSE inputDir

MoveNotices(src, target) ==
    IF MoveSucceeds(src, target) THEN <<>> ELSE <<Notice("File move failed for", src, 0)>>

\* part_004 createNoteContent(noteId): the rendered template, '' on failure
TemplateLoads == "tplFile" \in exists

createNoteContentPF(noteId) ==
    IF TemplateLoads THEN RenderTemplate(Template, noteId) ELSE <<>>

createNoteContentNotices ==
    IF TemplateLoads THEN <<>> ELSE <<Notice("Unable to create note content", <<>>, 0)>>

\* the loop goes on with the next entry; the dispatched item is counted
NextItemPF ==
    /\ idx' = idx + 1
    /\ processedCount' = processedCount + 1
    /\ pc' = "loop"

\* the loop has an entry to look at, and statSync finds it (line 89)
InLoopPF == prog = "pf" /\ pc = "loop" /\ idx <= Len(files) /\ cur \in DOMAIN inputDir

IsDirectory(name) == inputDir[name].kind = "dir"

\* mutant: the setting is tested the wrong way round
HiddenSkipped_Inverted(name) == ~settings.ignoreHiddenFiles /\ StartsWithDot(name)

\* lines 92 / 64: settings.ignoreHiddenFiles && file.startsWith('.')
HiddenSkipped(name) == settings.ignoreHiddenFiles /\ StartsWithDot(name)

\* processFiles, lines 72-75: a required path is missing
PFAbort ==
    /\ prog = "pf" /\ pc = "idle"
    /\ ~ensureAllFoldersExist(settings, exists)
    /\ Say(GuardNotices(settings, exists) \o <<Notice("Import aborted", <<>>, 0)>>)
    /\ pc' = "done"
    /\ UNCHANGED <<world, inputDir, attachDir, noteDir, files, idx, processedCount, nextId,
                   noteUUID, noteContent, attachementList, parsed, attIdx, dispatchLog, readLog>>

\* processFiles, lines 77-82: the listing is taken
PFStart ==
    /\ prog = "pf" /\ pc = "idle"
    /\ ensureAllFoldersExist(settings, exists)
    /\ files' = Readdir
    /\ processedCount' = 0
    /\ idx' = 1
    /\ pc' = "loop"
    /\ UNCHANGED <<world, inputDir, attachDir, noteDir, nextId, noteUUID, noteContent,
                   attachementList, parsed, attIdx, notices, dispatchLog, readLog>>

\* line 89
PFSkipDir ==
    /\ InLoopPF
    /\ IsDirectory(cur)
    /\ idx' = idx + 1
    /\ UNCHANGED <<world, inputDir, attachDir, noteDir, pc, files, processedCount, nextId,
                   noteUUID, noteContent, attachementList, parsed, attIdx, notices,
                   dispatchLog, readLog>>

\* line 92
PFSkipHidden ==
    /\ InLoopPF
    /\ ~IsDirectory(cur)
    /\ HiddenSkipped(cur)
    /\ idx' = idx + 1
    /\ UNCHANGED <<world, inputDir, attachDir, noteDir, pc, files, processedCount, nextId,
                   noteUUID, noteContent, attachementList, parsed, attIdx, notices,
                   dispatchLog, readLog>>

DispatchablePF == InLoopPF /\ ~IsDirectory(cur) /\ ~HiddenSkipped(cur)

\* lines 101-102
PFSkipMd ==
    /\ DispatchablePF
    /\ Extname(cur) = <<".", "md">>
    /\ idx' = idx + 1
    /\ UNCHANGED <<world, inputDir, attachDir, noteDir, pc, files, processedCount, nextId,
                   noteUUID, noteContent, attachementList, parsed, attIdx, notices,
                   dispatchLog, readLog>>

\* mutant: the catch of processEmlFile removes the mail it could not handle
PFEmlFail_DropsMail ==
    /\ InLoopPF /\ ~IsDirectory(cur) /\ ~HiddenSkipped(cur)
    /\ Extname(cur) = <<".", "eml">>
    /\ ~IsTFile(cur) \/ ~inputDir[cur].parses
    /\ dispatchLog' = Append(dispatchLog, <<"eml", cur>>)
    /\ readLog' = IF IsTFile(cur) THEN readLog \cup {cur} ELSE readLog
    /\ Say(<<Notice("Error processing", cur, 0)>>)
    /\ inputDir' = Remove(inputDir, cur)
    /\ NextItemPF
    /\ UNCHANGED <<world, attachDir, noteDir, files, nextId, noteUUID, noteContent,
                   attachementList, parsed, attIdx>>

\* mutant: processEmlFile without its own catch, the error reaches line 113
PFEmlFail_Escapes ==
    /\ InLoopPF /\ ~IsDirectory(cur) /\ ~HiddenSkipped(cur)
    /\ Extname(cur) = <<".", "eml">>
    /\ ~IsTFile(cur) \/ ~inputDir[cur].parses
    /\ dispatchLog' = Append(dispatchLog, <<"eml", cur>>)
    /\ readLog' = IF IsTFile(cur) THEN readLog \cup {cur} ELSE readLog
    /\ Say(<<Notice("Error", <<>>, 0)>>)
    /\ pc' = "done"
    /\ UNCHANGED <<world, inputDir, attachDir, noteDir, files, idx, processedCount, nextId,
                   noteUUID, noteContent, attachementList, parsed, attIdx>>

\* processEmlFile, lines 124-143 failing: the lookup or the parse throws,
\* the catch of lines 205-208 notifies
PFEmlFail ==
    /\ DispatchablePF
    /\ Extname(cur) = <<".", "eml">>
    /\ ~IsTFile(cur) \/ ~inputDir[cur].parses
    /\ dispatchLog' = Append(dispatchLog, <<"eml", cur>>)
    /\ readLog' = IF IsTFile(cur) THEN readLog \cup {cur} ELSE readLog
    /\ Say(<<Notice("Error processing", cur, 0)>>)
    /\ NextItemPF
    /\ UNCHANGED <<world, inputDir, attachDir, noteDir, files, nextId, noteUUID, noteContent,
                   attachementList, parsed, attIdx>>

\* processEmlFile, lines 124-154: read, parse, id, template, subject block
PFEmlStart ==
    /\ DispatchablePF
    /\ Extname(cur) = <<".", "eml">>
    /\ IsTFile(cur) /\ inputDir[cur].parses
    /\ dispatchLog' = Append(dispatchLog, <<"eml", cur>>)
    /\ readLog' = readLog \cup {cur}
    /\ nextId' = nextId + 1
    /\ noteUUID' = UuidPool[nextId + 1]
    /\ noteContent' = (IF settings.useTemplate THEN createNoteContentPF(UuidPool[nextId + 1]) ELSE <<>>)
                        \o <<MailBlock(cur)>>
    /\ Say(IF settings.useTemplate THEN createNoteContentNotices ELSE <<>>)
    /\ parsed' = inputDir[cur].atts
    /\ attIdx' = 1
    /\ pc' = "pf_att"
    /\ UNCHANGED <<world, inputDir, attachDir, noteDir, files, idx, processedCount,
                   attachementList>>

\* lines 160-174, one attachment
PFEmlAttach ==
    /\ prog = "pf" /\ pc = "pf_att" /\ attIdx <= Len(parsed)
    /\ LET filename == parsed[attIdx]
           target == TargetName(noteUUID, filename)
       IN IF Extname(filename) = <<>>
          THEN /\ attIdx' = attIdx + 1
               /\ UNCHANGED <<attachDir, noteContent, notices, idx, processedCount, pc>>
          ELSE IF CanCreateIn(attachDir, "attach", target)
          THEN /\ attachDir' = Put(attachDir, target, AttBytes(attIdx))
               /\ noteContent' = Append(noteContent, Link(target))
               /\ attIdx' = attIdx + 1
               /\ UNCHANGED <<notices, idx, processedCount, pc>>
          ELSE /\ Say(<<Notice("Error processing", cur, 0)>>)
               /\ NextItemPF
               /\ UNCHANGED <<attachDir, noteContent, attIdx>>
    /\ UNCHANGED <<world, inputDir, noteDir, files, nextId, noteUUID, attachementList, parsed,
                   dispatchLog, readLog>>

\* mutant: the mail file is moved (copyOnly = false) instead of copied
PFEmlOrig_Moves ==
    /\ prog = "pf" /\ pc = "pf_att" /\ attIdx > Len(parsed)
    /\ LET target == TargetName(noteUUID, cur)
       IN IF settings.attachEmlFile
          THEN /\ attachDir' = AttachAfterMove(cur, target)
               /\ inputDir' = InputAfterMove(cur, target, FALSE)
               /\ Say(MoveNotices(cur, target))
               /\ noteContent' = Append(noteContent, Link(target))
          ELSE UNCHANGED <<attachDir, inputDir, notices, noteContent>>
    /\ pc' = "pf_note"
    /\ UNCHANGED <<world, noteDir, files, idx, processedCount, nextId, noteUUID,
                   attachementList, parsed, attIdx, dispatchLog, readLog>>

\* lines 177-182: the mail file itself
PFEmlOrig ==
    /\ prog = "pf" /\ pc = "pf_att" /\ attIdx > Len(parsed)
    /\ LET target == TargetName(noteUUID, cur)
       IN IF settings.attachEmlFile
          THEN /\ attachDir' = AttachAfterMove(cur, target)
               /\ inputDir' = InputAfterMove(cur, target, TRUE)
               /\ Say(MoveNotices(cur, target))
               /\ noteContent' = Append(noteContent, Link(target))
          ELSE UNCHANGED <<attachDir, inputDir, notices, noteContent>>
    /\ pc' = "pf_note"
    /\ UNCHANGED <<world, noteDir, files, idx, processedCount, nextId, noteUUID,
                   attachementList, parsed, attIdx, dispatchLog, readLog>>

\* mutant: the source mail is deleted before the note is created
PFEmlNote_DeletesFirst ==
    /\ prog = "pf" /\ pc = "pf_note"
    /\ inputDir' = IF settings.deleteEmlFiles THEN Remove(inputDir, cur) ELSE inputDir
    /\ LET noteTitle == createNameForNote(cur)
           cleared == IF noteTitle \in DOMAIN noteDir THEN Remove(noteDir, noteTitle) ELSE noteDir
       IN IF CanCreateIn(cleared, "note", noteTitle)
          THEN /\ noteDir' = Put(cleared, noteTitle, noteContent)
               /\ pc' = "pf_del"
               /\ UNCHANGED <<notices, idx, processedCount>>
          ELSE /\ noteDir' = cleared
               /\ Say(<<Notice("Error processing", cur, 0)>>)
               /\ NextItemPF
    /\ UNCHANGED <<world, attachDir, files, nextId, noteUUID, noteContent,
                   attachementList, parsed, attIdx, dispatchLog, readLog>>

\* lines 188-195: an existing note is deleted, the note is created
PFEmlNote ==
    /\ prog = "pf" /\ pc = "pf_note"
    /\ LET noteTitle == createNameForNote(cur)
           cleared == IF noteTitle \in DOMAIN noteDir THEN Remove(noteDir, noteTitle) ELSE noteDir
       IN IF CanCreateIn(cleared, "note", noteTitle)
          THEN /\ noteDir' = Put(cleared, noteTitle, noteContent)
               /\ pc' = "pf_del"
               /\ UNCHANGED <<notices, idx, processedCount>>
          ELSE /\ noteDir' = cleared
               /\ Say(<<Notice("Error processing", cur, 0)>>)
               /\ NextItemPF
    /\ UNCHANGED <<world, inputDir, attachDir, files, nextId, noteUUID, noteContent,
                   attachementList, parsed, attIdx, dispatchLog, readLog>>

\* lines 198-203
PFEmlDelete ==
    /\ prog = "pf" /\ pc = "pf_del"
    /\ IF settings.deleteEmlFiles /\ cur \notin DOMAIN inputDir
       THEN \* the file is gone: vault.delete throws, the catch of 205-208 notifies
            /\ Say(<<Notice("Error processing", cur, 0)>>)
            /\ UNCHANGED inputDir
       ELSE /\ inputDir' = IF settings.deleteEmlFiles THEN Remove(inputDir, cur) ELSE inputDir
            /\ Say(<<Notice("Created note for", cur, 0)>>)
    /\ NextItemPF
    /\ UNCHANGED <<world, attachDir, noteDir, files, nextId, noteUUID, noteContent,
                   attachementList, parsed, attIdx, dispatchLog, readLog>>

IsStandardPF == DispatchablePF /\ Extname(cur) \notin {<<".", "eml">>, <<".", "md">>}

\* processStandardFile, lines 218-225: id, then the move
PFStdMove ==
    /\ IsStandardPF
    /\ dispatchLog' = Append(dispatchLog, <<"std", cur>>)
    /\ nextId' = nextId + 1
    /\ noteUUID' = UuidPool[nextId + 1]
    /\ LET target == TargetName(UuidPool[nextId + 1], cur)
       IN /\ attachDir' = AttachAfterMove(cur, target)
          /\ inputDir' = InputAfterMove(cur, target, FALSE)
          /\ Say(MoveNotices(cur, target))
    /\ pc' = "pf_stdnote"
    /\ UNCHANGED <<world, noteDir, files, idx, processedCount, noteContent, attachementList,
                   parsed, attIdx, readLog>>

\* processStandardFile, lines 227-250: content, link, create
PFStdNote ==
    /\ prog = "pf" /\ pc = "pf_stdnote"
    /\ LET noteNameWithPath == createNameForNote(cur)
           content == (IF settings.useTemplate THEN createNoteContentPF(noteUUID) ELSE <<>>)
                        \o <<Link(TargetName(noteUUID, cur))>>
           tplNotices == IF settings.useTemplate THEN createNoteContentNotices ELSE <<>>
       IN /\ noteContent' = content
          /\ IF CanCreateIn(noteDir, "note", noteNameWithPath)
             THEN /\ noteDir' = Put(noteDir, noteNameWithPath, content)
                  /\ Say(tplNotices \o <<Notice("Created note for", cur, 0)>>)
             ELSE /\ noteDir' = noteDir
                  /\ Say(tplNotices \o <<Notice("Error processing", cur, 0)>>)
    /\ NextItemPF
    /\ UNCHANGED <<world, inputDir, attachDir, files, nextId, noteUUID, attachementList,
                   parsed, attIdx, dispatchLog, readLog>>

\* line 111
PFFinish ==
    /\ prog = "pf" /\ pc = "loop" /\ idx > Len(files)
    /\ Say(<<Notice("Processed files", <<>>, processedCount)>>)
    /\ pc' = "done"
    /\ UNCHANGED <<world, inputDir, attachDir, noteDir, files, idx, processedCount, nextId,
                   noteUUID, noteContent, attachementList, parsed, attIdx, dispatchLog, readLog>>

NextPF ==
    \/ PFAbort \/ PFStart \/ PFSkipDir \/ PFSkipHidden \/ PFSkipMd
    \/ PFEmlFail \/ PFEmlStart \/ PFEmlAttach \/ PFEmlOrig \/ PFEmlNote \/ PFEmlDelete
    \/ PFStdMove \/ PFStdNote \/ PFFinish

InitPF == Init /\ prog = "pf"

SpecPF == InitPF /\ [][NextPF]_vars


\* ======================================= ExtNoteManager: createNotesForFiles
\* constructor, line 37: ensureAllFoldersExist is async, so the tested value
\* is a Promise object and !promise is false whatever the checks find
ConstructorThrows(s, ex) == FALSE

InLoopENM == prog = "enm" /\ pc = "loop" /\ idx <= Len(files)

\* the throw reaches the catch of createNotesForFiles (line 87), which logs
\* and ends the run
AbortRunENM == pc' = "done"

\* createFinalNote: prefix + " " + sanitised TFile.basename + ".md"
FinalNoteTitle(name) ==
    <<createDatePrefix, " ">> \o Sanitize(Basename(name, Extname(name))) \o <<".", "md">>

\* useTemplateForContent: the content after the call
useTemplateForContent(content, noteId) ==
    IF ~settings.useTemplate THEN content
    ELSE IF TemplateLoads THEN RenderTemplate(Template, noteId)
    ELSE content

useTemplateNotices ==
    IF settings.useTemplate /\ ~TemplateLoads THEN <<Notice("Unable to use template", <<>>, 0)>> ELSE <<>>

\* mutant: the list is walked from its end
addAttachmentsToContent_Reversed(content, list) ==
    content \o [i \in DOMAIN list |-> Link(list[Len(list) + 1 - i])]

\* addAttachmentsToContent: one link per list element, in list order
addAttachmentsToContent(content, list) == content \o [i \in DOMAIN list |-> Link(list[i])]

\* main.ts 41-52, constructor, createNotesForFiles 55-56 with the input
\* folder missing: readdirSync throws
ENMClickNoInput ==
    /\ prog = "enm" /\ pc = "idle"
    /\ ~ConstructorThrows(settings, exists)
    /\ "input" \notin exists
    /\ Say(GuardNotices(settings, exists))
    /\ pc' = "done"
    /\ UNCHANGED <<world, inputDir, attachDir, noteDir, files, idx, processedCount, nextId,
                   noteUUID, noteContent, attachementList, parsed, attIdx, dispatchLog, readLog>>

\* main.ts 45-46 with the constructor throwing: 'Unable to process file'
ENMClickRefused ==
    /\ prog = "enm" /\ pc = "idle"
    /\ ConstructorThrows(settings, exists)
    /\ Say(GuardNotices(settings, exists) \o <<Notice("Unable to process file", <<>>, 0)>>)
    /\ pc' = "done"
    /\ UNCHANGED <<world, inputDir, attachDir, noteDir, files, idx, processedCount, nextId,
                   noteUUID, noteContent, attachementList, parsed, attIdx, dispatchLog, readLog>>

\* main.ts 41-52, constructor, createNotesForFiles 55-57
ENMStart ==
    /\ prog = "enm" /\ pc = "idle"
    /\ ~ConstructorThrows(settings, exists)
    /\ "input" \in exists
    /\ Say(GuardNotices(settings, exists))
    /\ noteContent' = <<>>
    /\ noteUUID' = ""
    /\ files' = Readdir
    /\ processedCount' = 0
    /\ idx' = 1
    /\ pc' = "loop"
    /\ UNCHANGED <<world, inputDir, attachDir, noteDir, nextId, attachementList, parsed,
                   attIdx, dispatchLog, readLog>>

\* line 64
ENMSkipHidden ==
    /\ InLoopENM
    /\ HiddenSkipped(cur)
    /\ idx' = idx + 1
    /\ UNCHANGED <<world, inputDir, attachDir, noteDir, pc, files, processedCount, nextId,
                   noteUUID, noteContent, attachementList, parsed, attIdx, notices,
                   dispatchLog, readLog>>

\* line 72
ENMSkipDir ==
    /\ InLoopENM
    /\ ~HiddenSkipped(cur)
    /\ IsTFolder(cur)
    /\ idx' = idx + 1
    /\ UNCHANGED <<world, inputDir, attachDir, noteDir, pc, files, processedCount, nextId,
                   noteUUID, noteContent, attachementList, parsed, attIdx, notices,
                   dispatchLog, readLog>>

\* lines 74-76: the entry is not known to the vault
ENMCantRead ==
    /\ InLoopENM
    /\ ~HiddenSkipped(cur)
    /\ ~IsTFolder(cur) /\ ~IsTFile(cur)
    /\ AbortRunENM
    /\ UNCHANGED <<world, inputDir, attachDir, noteDir, files, idx, processedCount, nextId,
                   noteUUID, noteContent, attachementList, parsed, attIdx, notices,
                   dispatchLog, readLog>>

\* line 79, createNoteFromFile 99-102: id and template
ENMItemStart ==
    /\ InLoopENM
    /\ ~HiddenSkipped(cur)
    /\ IsTFile(cur)
    /\ dispatchLog' = Append(dispatchLog, <<"enm", cur>>)
    /\ nextId' = nextId + 1
    /\ noteUUID' = UuidPool[nextId + 1]
    /\ noteContent' = useTemplateForContent(noteContent, UuidPool[nextId + 1])
    /\ Say(useTemplateNotices)
    /\ pc' = "enm_content"
    /\ UNCHANGED <<world, inputDir, attachDir, noteDir, files, idx, processedCount,
                   attachementList, parsed, attIdx, readLog>>

IsEml(name) == Extension(name) = <<"eml">>

\* createNoteContent 160-184: the subject block of a mail
ENMCreateContent ==
    /\ prog = "enm" /\ pc = "enm_content"
    /\ IsEml(cur) => (IsTFile(cur) /\ inputDir[cur].parses)
    /\ noteContent' = IF IsEml(cur) THEN Append(noteContent, MailBlock(cur)) ELSE noteContent
    /\ readLog' = IF IsEml(cur) THEN readLog \cup {cur} ELSE readLog
    /\ pc' = "enm_move"
    /\ UNCHANGED <<world, inputDir, attachDir, noteDir, files, idx, processedCount, nextId,
                   noteUUID, attachementList, parsed, attIdx, notices, dispatchLog>>

\* createNoteContent 177-180: the parse throws, rethrown up to line 87
ENMContentFail ==
    /\ prog = "enm" /\ pc = "enm_content"
    /\ IsEml(cur) /\ ~(IsTFile(cur) /\ inputDir[cur].parses)
    /\ readLog' = readLog \cup {cur}
    /\ AbortRunENM
    /\ UNCHANGED <<world, inputDir, attachDir, noteDir, files, idx, processedCount, nextId,
                   noteUUID, noteContent, attachementList, parsed, attIdx, notices, dispatchLog>>

\* moveFileToAttachmentFolder, line 191: `inputFile.extension = "eml"` is an
\* assignment, whose value "eml" is truthy for every file
TreatedAsEml(name) == TRUE

\* moveFileToAttachmentFolder 189-197: the file is read and parsed
ENMMoveStart ==
    /\ prog = "enm" /\ pc = "enm_move"
    /\ IF TreatedAsEml(cur)
       THEN /\ readLog' = readLog \cup {cur}
            /\ IF IsTFile(cur) /\ inputDir[cur].parses
               THEN /\ parsed' = inputDir[cur].atts
                    /\ pc' = "enm_att"
                    /\ UNCHANGED notices
               ELSE /\ Say(<<Notice("Unable to handle input file", <<>>, 0)>>)
                    /\ AbortRunENM
                    /\ UNCHANGED parsed
       ELSE /\ parsed' = <<>>
            /\ pc' = "enm_orig"
            /\ UNCHANGED <<readLog, notices>>
    /\ attIdx' = 1
    /\ UNCHANGED <<world, inputDir, attachDir, noteDir, files, idx, processedCount, nextId,
                   noteUUID, noteContent, attachementList, dispatchLog>>

\* lines 201-216, one attachment
ENMAttach ==
    /\ prog = "enm" /\ pc = "enm_att" /\ attIdx <= Len(parsed)
    /\ LET filename == parsed[attIdx]
           newFilename == TargetName(noteUUID, filename)
       IN IF Extname(filename) = <<>>
          THEN /\ attIdx' = attIdx + 1
               /\ UNCHANGED <<attachDir, attachementList, notices, pc>>
          ELSE IF CanCreateIn(attachDir, "attach", newFilename)
          THEN /\ attachDir' = Put(attachDir, newFilename, AttBytes(attIdx))
               /\ attachementList' = Append(attachementList, newFilename)
               /\ attIdx' = attIdx + 1
               /\ UNCHANGED <<notices, pc>>
          ELSE /\ Say(<<Notice("Unable to handle input file", <<>>, 0)>>)
               /\ AbortRunENM
               /\ UNCHANGED <<attachDir, attachementList, attIdx>>
    /\ UNCHANGED <<world, inputDir, noteDir, files, idx, processedCount, nextId, noteUUID,
                   noteContent, parsed, dispatchLog, readLog>>

\* lines 219-223: the mail file is not wanted as an attachment and is deleted
ENMDeleteOrig ==
    /\ prog = "enm" /\ pc = "enm_att" /\ attIdx > Len(parsed)
    /\ ~settings.attachEmlFile
    /\ IF cur \in DOMAIN inputDir
       THEN /\ inputDir' = Remove(inputDir, cur)
            /\ pc' = "enm_note"
            /\ UNCHANGED notices
       ELSE \* the file is gone: vault.delete throws, lines 236-240
            /\ Say(<<Notice("Unable to handle input file", <<>>, 0)>>)
            /\ AbortRunENM
            /\ UNCHANGED inputDir
    /\ UNCHANGED <<world, attachDir, noteDir, files, idx, processedCount, nextId, noteUUID,
                   noteContent, attachementList, parsed, attIdx, dispatchLog, readLog>>

\* lines 227-234: the input file is moved, its new name is listed
ENMMoveOrig ==
    /\ prog = "enm"
    /\ \/ pc = "enm_att" /\ attIdx > Len(parsed) /\ settings.attachEmlFile
       \/ pc = "enm_orig"
    /\ LET newFilename == TargetName(noteUUID, cur)
       IN /\ attachDir' = AttachAfterMove(cur, newFilename)
          /\ inputDir' = InputAfterMove(cur, newFilename, FALSE)
          /\ Say(MoveNotices(cur, newFilename))
          /\ attachementList' = Append(attachementList, newFilename)
    /\ pc' = "enm_note"
    /\ UNCHANGED <<world, noteDir, files, idx, processedCount, nextId, noteUUID, noteContent,
                   parsed, attIdx, dispatchLog, readLog>>

\* createNoteFromFile 112-115 and line 81: links, note, count
ENMFinalNote ==
    /\ prog = "enm" /\ pc = "enm_note"
    /\ LET content == addAttachmentsToContent(noteContent, attachementList)
           noteTitle == FinalNoteTitle(cur)
       IN /\ noteContent' = content
          /\ attachementList' = <<>>
          /\ IF CanCreateIn(noteDir, "note", noteTitle)
             THEN /\ noteDir' = Put(noteDir, noteTitle, content)
                  /\ processedCount' = processedCount + 1
                  /\ idx' = idx + 1
                  /\ pc' = "loop"
             ELSE /\ AbortRunENM
                  /\ UNCHANGED <<noteDir, processedCount, idx>>
    /\ UNCHANGED <<world, inputDir, attachDir, files, nextId, noteUUID, parsed, attIdx,
                   notices, dispatchLog, readLog>>

\* line 83
ENMFinish ==
    /\ prog = "enm" /\ pc = "loop" /\ idx > Len(files)
    /\ Say(<<Notice("Processed files", <<>>, processedCount)>>)
    /\ pc' = "done"
    /\ UNCHANGED <<world, inputDir, attachDir, noteDir, files, idx, processedCount, nextId,
                   noteUUID, noteContent, attachementList, parsed, attIdx, dispatchLog, readLog>>

NextENM ==
    \/ ENMClickNoInput \/ ENMStart \/ ENMSkipHidden \/ ENMSkipDir \/ ENMCantRead
    \/ ENMItemStart \/ ENMCreateContent \/ ENMContentFail \/ ENMMoveStart \/ ENMAttach
    \/ ENMDeleteOrig \/ ENMMoveOrig \/ ENMFinalNote \/ ENMFinish

InitENM == Init /\ prog = "enm"

SpecENM == InitENM /\ [][NextENM]_vars

Next == NextENM \/ NextPF

Spec == Init /\ [][Next]_vars


\* ================================================================= claims
AllPathsExist == exists = Paths

\* the k-th dispatched item has left its pipeline
Finished(k) == k < Len(dispatchLog) \/ pc \in {"loop", "done"}

Dispatched(name) == \E k \in DOMAIN dispatchLog : dispatchLog[k][2] = name

Summaries == SelectSeq(notices, LAMBDA n : n.msg = "Processed files")

\* C1: when the import is triggered through ExtNoteManager and a required
\* path is missing, nothing is touched: no input entry is read, moved or
\* deleted, no attachment is written, no note is created.
C1_AbortedBeforeAnyFileIsTouched ==
    (prog = "enm" /\ ~ensureAllFoldersExist(settings, exists)) =>
        /\ inputDir = inputDir0
        /\ readLog = {}
        /\ attachDir = <<>>
        /\ noteDir = <<>>

\* C2: in createNotesForFiles a failing item never aborts the rest of the
\* batch: a run that has ended went through the whole listing.
C2_FailureDoesNotAbortBatch ==
    (prog = "enm" /\ pc = "done" /\ AllPathsExist) =>
        \A i \in DOMAIN files :
            (/\ inputDir0[files[i]].kind = "file"
             /\ inputDir0[files[i]].inVault
             /\ ~(settings.ignoreHiddenFiles /\ StartsWithDot(files[i]))) => Dispatched(files[i])

\* C3: createNoteFromFile moves every non-markdown, non-mail file to
\* <runId>_<name> in the attachment folder and writes a note with exactly one
\* embed link, the one of the moved file, whatever the settings.
C3_StandardFileMovedAndLinkedOnce ==
    (prog = "enm" /\ AllPathsExist) =>
        \A k \in DOMAIN dispatchLog :
            LET name == dispatchLog[k][2]
                target == TargetName(UuidPool[k], name)
            IN (Finished(k) /\ Extension(name) \notin {<<"eml">>, <<"md">>}) =>
                /\ name \notin DOMAIN inputDir
                /\ target \in DOMAIN attachDir
                /\ attachDir[target] = inputDir0[name].data
                /\ FinalNoteTitle(name) \in DOMAIN noteDir
                /\ Links(noteDir[FinalNoteTitle(name)]) = <<Link(target)>>

\* the attachments of a list that have an extension, as positions
WithExt(atts) == {i \in DOMAIN atts : Extname(atts[i]) # <<>>}

RECURSIVE AttLinks(_, _, _)
AttLinks(uuid, atts, i) ==
    IF i > Len(atts) THEN <<>>
    ELSE (IF Extname(atts[i]) # <<>> THEN <<Link(TargetName(uuid, atts[i]))>> ELSE <<>>)
            \o AttLinks(uuid, atts, i + 1)

\* the files <uuid>_<anything> of the attachment folder
WrittenFor(uuid) == {t \in DOMAIN attachDir : t[1] = uuid}

\* C4: for a mail with any list of attachments processEmlFile writes every
\* attachment that has an extension as <runId>_<name>, and the note holds one
\* embed link for each of them, in attachment order, and none for the others.
C4_EveryAttachmentWithExtensionWrittenAndLinked ==
    prog = "pf" =>
        \A k \in DOMAIN dispatchLog :
            LET name == dispatchLog[k][2]
                atts == inputDir0[name].atts
                title == createNameForNote(name)
            IN (/\ Finished(k)
                /\ dispatchLog[k][1] = "eml"
                /\ inputDir0[name].inVault
                /\ inputDir0[name].parses) =>
                    \E u \in Range(UuidPool) :
                        /\ \A i \in WithExt(atts) :
                            TargetName(u, atts[i]) \in DOMAIN attachDir
                        /\ Cardinality(WrittenFor(u) \ {TargetName(u, name)}) = Cardinality(WithExt(atts))
                        /\ title \in DOMAIN noteDir
                        /\ SelectSeq(Links(noteDir[title]), LAMBDA l : l.v # TargetName(u, name))
                            = AttLinks(u, atts, 1)

NoteWritingStep == pc \in {"pf_note", "pf_stdnote", "enm_note"}

TitleOfCurrent == IF prog = "pf" THEN createNameForNote(cur) ELSE FinalNoteTitle(cur)

\* C5: a pipeline that writes its note to a path where a file already exists
\* does not fail and leaves exactly the new content at that path.
C5_ExistingNoteIsReplaced ==
    [][(NoteWritingStep /\ AllPathsExist /\ TitleOfCurrent \in DOMAIN noteDir) =>
            (TitleOfCurrent \in DOMAIN noteDir' /\ noteDir'[TitleOfCurrent] = noteContent')]_vars

\* eligibility as the claim states it, on the folder as it was listed
Eligible(name) ==
    /\ inputDir0[name].kind # "dir"
    /\ ~(settings.ignoreHiddenFiles /\ StartsWithDot(name))
    /\ Extname(name) # <<".", "md">>

PipelineFor(name) == IF Extname(name) = <<".", "eml">> THEN "eml" ELSE "std"

ExpectedDispatch ==
    LET el == SelectSeq(dirOrder, Eligible)
    IN [i \in DOMAIN el |-> <<PipelineFor(el[i]), el[i]>>]

\* C6: processFiles dispatches exactly one pipeline invocation per eligible
\* entry, processEmlFile for .eml and processStandardFile otherwise, and the
\* summary reports their number, also when dispatched items failed inside.
C6_OneDispatchPerEligibleEntry ==
    (prog = "pf" /\ pc = "done" /\ ensureAllFoldersExist(settings, exists)) =>
        /\ dispatchLog = ExpectedDispatch
        /\ Len(Summaries) = 1
        /\ notices[Len(notices)] = Notice("Processed files", <<>>, Len(ExpectedDispatch))

ItemFailed == \E i \in DOMAIN notices : notices[i].msg \in {"Error processing", "File move failed for"}

C6_Witness ==
    /\ prog = "pf" /\ pc = "done"
    /\ Len(dispatchLog) >= 1
    /\ Len(dispatchLog) < Len(files)
    /\ ItemFailed
    /\ Len(Summaries) = 1

\* C7: every run of createNotesForFiles that starts iterating the listing
\* emits exactly one 'Processed <count> files' summary.
C7_RunEndsWithOneSummary ==
    (prog = "enm" /\ pc = "done" /\ AllPathsExist) => Len(Summaries) = 1

\* C8: createNotesForFiles skips an .md entry entirely: it stays in the input
\* folder unchanged, is not relocated, not counted, and gets no note.
C8_MarkdownEntrySkipped ==
    prog = "enm" =>
        \A name \in DOMAIN inputDir0 :
            Extension(name) = <<"md">> =>
                /\ name \in DOMAIN inputDir
                /\ inputDir[name] = inputDir0[name]
                /\ name \notin readLog
                /\ ~Dispatched(name)

Skippable(name) ==
    \/ inputDir0[name].kind = "dir"
    \/ settings.ignoreHiddenFiles /\ StartsWithDot(name)

\* C9: a batch run leaves every subdirectory of the input folder and, with
\* dot-file filtering on, every entry whose name starts with '.', untouched:
\* not read, moved, deleted, dispatched or counted.
C9_DirectoriesAndDotFilesUntouched ==
    /\ \A name \in DOMAIN inputDir0 :
        Skippable(name) =>
            /\ name \in DOMAIN inputDir
            /\ inputDir[name] = inputDir0[name]
            /\ name \notin readLog
            /\ ~Dispatched(name)
    /\ processedCount <= Cardinality({n \in DOMAIN inputDir0 : ~Skippable(n)})

C9_Witness ==
    /\ pc = "done"
    /\ processedCount >= 1
    /\ \E i \in DOMAIN files : Skippable(files[i]) /\ i < Len(files)
    /\ \E i \in DOMAIN notices : notices[i].msg = "Processed files"

\* C10: when the move of processStandardFile fails, the item is aborted and
\* no note is created for it.
C10_FailedMoveCreatesNoNote ==
    [][(prog = "pf" /\ pc = "pf_stdnote" /\ TargetName(noteUUID, cur) \notin DOMAIN attachDir) =>
            noteDir' = noteDir]_vars


CreatedMail(i) == notices[i].msg = "Created note for" /\ Extname(notices[i].name) = <<".", "eml">>

\* C11: after processEmlFile completed without error the source mail is gone
\* from the input folder with deleteEmlFiles on, and is still there,
\* unchanged, with deleteEmlFiles off, whatever attachEmlFile is.
C11_SourceMailDeletedOnlyOnRequest ==
    prog = "pf" =>
        \A i \in DOMAIN notices :
            CreatedMail(i) =>
                IF settings.deleteEmlFiles
                THEN notices[i].name \notin DOMAIN inputDir
                ELSE /\ notices[i].name \in DOMAIN inputDir
                     /\ inputDir[notices[i].name] = inputDir0[notices[i].name]

C11_Witness ==
    /\ prog = "pf" /\ pc = "done"
    /\ settings.attachEmlFile /\ ~settings.deleteEmlFiles
    /\ \E i \in DOMAIN notices : CreatedMail(i) /\ notices[i].name \in DOMAIN inputDir
    /\ \E t \in DOMAIN attachDir : attachDir[t] = FileBytes(NameEml)

\* C12: with attachEmlFile on, processEmlFile places the content of the mail
\* file in the attachment folder as <runId>_<name> and appends exactly one
\* more embed link, for that file, after the links of the attachments; with
\* attachEmlFile off neither the file nor the link is produced.
C12_OriginalMailAttachedOnRequest ==
    (prog = "pf" /\ pc = "pf_note") =>
        LET target == TargetName(noteUUID, cur)
            placed == target \in DOMAIN attachDir /\ attachDir[target] = inputDir0[cur].data
        IN IF settings.attachEmlFile
           THEN placed /\ Links(noteContent) = Append(AttLinks(noteUUID, parsed, 1), Link(target))
           ELSE ~placed /\ Links(noteContent) = AttLinks(noteUUID, parsed, 1)

\* C13: when the template cannot be loaded in the ExtNoteManager pipeline the
\* user is notified and the template contributes the empty string: the
\* content the note starts from is blank.
C13_FailedTemplateContributesNothing ==
    (prog = "enm" /\ pc = "enm_content" /\ settings.useTemplate /\ ~TemplateLoads) =>
        /\ notices # <<>>
        /\ notices[Len(notices)].msg = "Unable to use template"
        /\ noteContent = <<>>

\* what one item may contribute to its note: its rendered template, its mail
\* block, and links to files written under its own identifier
OwnMaterial(content, name, uuid) ==
    /\ SelectSeq(content, LAMBDA p : p.t # "link") =
           (IF settings.useTemplate /\ TemplateLoads THEN RenderTemplate(Template, uuid) ELSE <<>>)
           \o (IF IsEml(name) THEN <<MailBlock(name)>> ELSE <<>>)
    /\ \A k \in DOMAIN content : content[k].t = "link" => content[k].v[1] = uuid

\* C20: every note written by createNotesForFiles of ExtNoteManager consists
\* only of its own item's material: no text and no link of an earlier item of
\* the run is in it (stated for a vault whose folders and template exist).
C20_NoteHoldsOnlyOwnMaterial ==
    [][(prog = "enm" /\ AllPathsExist /\ pc = "enm_note" /\ noteDir' # noteDir) =>
            OwnMaterial(noteDir'[FinalNoteTitle(cur)], cur, noteUUID)]_vars

\* ======================================================= template rendering
MaxPieces == 3

MaxRenders == 2

\* what a template text is put together from
Pieces == {DatePlaceholder, IdPlaceholder, <<"x">>, <<"%">>, <<"date">>}

RECURSIVE Flatten(_)
Flatten(ss) == IF ss = <<>> THEN <<>> ELSE Head(ss) \o Flatten(Tail(ss))

TemplateTexts == {Flatten(ss) : ss \in SeqsUpTo(Pieces, MaxPieces)}

\* getFormattedISODate has minute resolution: a later call may return a later value
LaterDate == "YYYY-MM-DD HH:MN"

RenderIds == {UuidPool[1], UuidPool[2]}

\* no batch run is going on
RunIdle ==
    /\ dirOrder = <<>>
    /\ inputDir = <<>>
    /\ inputDir0 = <<>>
    /\ attachDir = <<>>
    /\ noteDir = <<>>
    /\ pc = "idle"
    /\ files = <<>>
    /\ idx = 1
    /\ processedCount = 0
    /\ nextId = 0
    /\ noteUUID = ""
    /\ noteContent = <<>>
    /\ attachementList = <<>>
    /\ parsed = <<>>
    /\ attIdx = 1
    /\ notices = <<>>
    /\ dispatchLog = <<>>
    /\ readLog = {}

BatchIdle ==
    /\ prog = "pf"
    /\ settings = [useTemplate |-> TRUE, attachEmlFile |-> FALSE,
                   deleteEmlFiles |-> FALSE, ignoreHiddenFiles |-> FALSE]
    /\ exists = Paths
    /\ RunIdle

InitRender ==
    /\ BatchIdle
    /\ GuardIdle
    /\ RenameIdle
    /\ RunsIdle
    /\ tplSrc \in TemplateTexts
    /\ clock = getFormattedISODate
    /\ rendered = <<>>

\* one call of createNoteContent(noteId) / useTemplateForContent with the template loaded
RenderCall ==
    /\ Len(rendered) < MaxRenders
    /\ \E noteId \in RenderIds :
           rendered' = Append(rendered, [src |-> tplSrc, at |-> clock, id |-> noteId,
                                         out |-> Substitute(tplSrc, clock, noteId)])
    /\ UNCHANGED <<prog, settings, exists, dirOrder, inputDir0, batch, guard, rename, runs, tplSrc, clock>>

\* the text produced by a rendering is saved as the template file
SaveOutputAsTemplate ==
    /\ \E k \in DOMAIN rendered : tplSrc' = rendered[k].out
    /\ tplSrc' # tplSrc
    /\ UNCHANGED <<prog, settings, exists, dirOrder, inputDir0, batch, guard, rename, runs, clock, rendered>>

\* a minute passes
ClockTick ==
    /\ clock = getFormattedISODate
    /\ clock' = LaterDate
    /\ UNCHANGED <<prog, settings, exists, dirOrder, inputDir0, batch, guard, rename, runs, tplSrc, rendered>>

NextRender == RenderCall \/ SaveOutputAsTemplate \/ ClockTick

SpecRender == InitRender /\ [][NextRender]_vars

HasPlaceholder(s) ==
    \E i \in DOMAIN s : MatchesAt(s, i, DatePlaceholder) \/ MatchesAt(s, i, IdPlaceholder)

\* s[i..] occurs in full[j..] as a subsequence
RECURSIVE EmbedsFrom(_, _, _, _)
EmbedsFrom(s, i, full, j) ==
    IF i > Len(s) THEN TRUE
    ELSE IF j > Len(full) THEN FALSE
    ELSE IF s[i] = full[j] THEN EmbedsFrom(s, i + 1, full, j + 1)
    ELSE EmbedsFrom(s, i, full, j + 1)

WithoutValues(s, r) == SelectSeq(s, LAMBDA c : c \notin {r.at, r.id})

\* number of value chunks a rendering put in
Inserted(r) ==
    (Len(r.out) - Len(WithoutValues(r.out, r))) - (Len(r.src) - Len(WithoutValues(r.src, r)))

LeftmostAt(s, i, pat) == MatchesAt(s, i, pat) /\ \A j \in 1..(i - 1) : s[j] # "%"

RenderedWell(r) ==
    \* every placeholder is replaced
    /\ ~HasPlaceholder(r.out)
    /\ \A i \in DOMAIN r.src :
           /\ LeftmostAt(r.src, i, DatePlaceholder) => r.out[i] = r.at
           \* the dates are put in first: an id placeholder whose closing % opens
           \* a date placeholder is no placeholder any more by then
           /\ (LeftmostAt(r.src, i, IdPlaceholder) /\ ~MatchesAt(r.src, i + 2, DatePlaceholder))
                  => r.out[i] = r.id
    \* all other text is untouched: each value stands for one placeholder,
    \* and what is left is the text of the template in its order
    /\ Inserted(r) >= 0
    /\ Len(WithoutValues(r.src, r)) - Len(WithoutValues(r.out, r)) = 3 * Inserted(r)
    /\ EmbedsFrom(WithoutValues(r.out, r), 1, WithoutValues(r.src, r), 1)
    \* a text without placeholder is returned as it is
    /\ ~HasPlaceholder(r.src) => r.out = r.src

\* two renderings of one text with one id differ at most in the date
SameButDate(r1, r2) ==
    /\ Len(r1.out) = Len(r2.out)
    /\ \A i \in DOMAIN r1.out :
           \/ r1.out[i] = r2.out[i]
           \/ r1.out[i] = r1.at /\ r2.out[i] = r2.at

GuardExists == {ex \in SUBSET Paths : "tplFile" \in ex => "tplDir" \in ex}

InitGuard ==
    /\ prog \in {"enm", "pf"}
    /\ settings \in SettingsSet
    /\ prog = "enm" => settings.deleteEmlFiles
    /\ exists \in GuardExists
    /\ RunIdle
    /\ RenderIdle
    /\ RenameIdle
    /\ RunsIdle
    /\ gPos = 1
    /\ gLog = <<>>
    /\ gRes = "checking"

GuardStay == <<prog, settings, exists, dirOrder, inputDir0, render, rename, runs, inputDir, attachDir, noteDir,
               pc, files, idx, processedCount, nextId, noteUUID, noteContent, attachementList,
               parsed, attIdx, dispatchLog, readLog>>

\* one turn of the loop over checks, the path exists
GuardCheckFound ==
    /\ gRes = "checking" /\ gPos <= Len(GuardChecks(settings))
    /\ GuardChecks(settings)[gPos] \in exists
    /\ gLog' = Append(gLog, GuardChecks(settings)[gPos])
    /\ gPos' = gPos + 1
    /\ UNCHANGED <<GuardStay, notices, gRes>>

\* one turn of the loop over checks, the path is missing: Notice, return false
GuardCheckMissing ==
    /\ gRes = "checking" /\ gPos <= Len(GuardChecks(settings))
    /\ GuardChecks(settings)[gPos] \notin exists
    /\ gLog' = Append(gLog, GuardChecks(settings)[gPos])
    /\ Say(<<Notice("does not exist", <<GuardChecks(settings)[gPos]>>, 0)>>)
    /\ gRes' = "false"
    /\ UNCHANGED <<GuardStay, gPos>>

\* the loop is through: return true
GuardReturnTrue ==
    /\ gRes = "checking" /\ gPos > Len(GuardChecks(settings))
    /\ gRes' = "true"
    /\ UNCHANGED <<GuardStay, notices, gPos, gLog>>

NextGuard == GuardCheckFound \/ GuardCheckMissing \/ GuardReturnTrue

SpecGuard == InitGuard /\ [][NextGuard]_vars

\* the order the claim gives
GuardOrder == <<"attach", "input", "note", "tplDir", "tplFile">>

Required == {"attach", "input", "note", "tplDir"} \cup (IF settings.useTemplate THEN {"tplFile"} ELSE {})

IsFirstMissing(k) ==
    /\ GuardOrder[k] \in Required \ exists
    /\ \A j \in 1..(k - 1) : GuardOrder[j] \in Required => GuardOrder[j] \in exists

\* C15: ensureAllFoldersExist yields true exactly when the four folders
\* exist and, with useTemplate on, the template file too; otherwise it
\* yields false after exactly one notification naming the first missing path
\* in the order attachment, input, note, template folder, template file, and
\* no later path is checked.
C15_GuardReportsFirstMissingPath ==
    /\ gRes = "true" =>
           /\ Required \subseteq exists
           /\ notices = <<>>
    /\ gRes = "false" =>
           /\ ~(Required \subseteq exists)
           /\ Len(notices) = 1
           /\ \E k \in DOMAIN GuardOrder :
                  /\ IsFirstMissing(k)
                  /\ notices[1] = Notice("does not exist", <<GuardOrder[k]>>, 0)
                  /\ gLog = SubSeq(GuardOrder, 1, k)
    /\ gRes \in {"true", "false"} =>
           /\ (gRes = "true") = ensureAllFoldersExist(settings, exists)
           /\ notices = GuardNotices(settings, exists)

C15_Witness ==
    /\ gRes = "false"
    /\ ~settings.useTemplate
    /\ exists = {"attach", "input", "tplDir"}
    /\ gLog = <<"attach", "input", "note">>
    /\ Len(notices) = 1

\* ================================================ renameNoteWithCreatedDate
\* note text is a sequence of characters; a word such as created is one token
Digits == {"0", "1", "2", "3", "4", "5", "6", "7", "8", "9"}

IsDigits(s) == \A i \in DOMAIN s : s[i] \in Digits

\* \w and \s of the regular expressions
WordChars == Digits \cup {"created", "title", "x", "n", "T"}

Blanks == {" ", "\n"}

\* String.prototype.trim
RECURSIVE TrimLeft(_)
TrimLeft(s) == IF s # <<>> /\ Head(s) \in Blanks THEN TrimLeft(Tail(s)) ELSE s

RECURSIVE TrimRight(_)
TrimRight(s) ==
    IF s # <<>> /\ s[Len(s)] \in Blanks THEN TrimRight(SubSeq(s, 1, Len(s) - 1)) ELSE s

Trim(s) == TrimRight(TrimLeft(s))

\* String.prototype.split(sep): the pieces between the separators
RECURSIVE Split(_, _)
Split(s, sep) ==
    LET at == {i \in DOMAIN s : s[i] = sep}
    IN IF at = {} THEN <<s>>
       ELSE LET i == CHOOSE h \in at : \A g \in at : h <= g
            IN <<SubSeq(s, 1, i - 1)>> \o Split(SubSeq(s, i + 1, Len(s)), sep)

\* /^\d{4}-\d{2}-\d{2}/
IsoStart(s) ==
    /\ Len(s) >= 10
    /\ IsDigits(SubSeq(s, 1, 4)) /\ s[5] = "-"
    /\ IsDigits(SubSeq(s, 6, 7)) /\ s[8] = "-"
    /\ IsDigits(SubSeq(s, 9, 10))

\* /^\d{2}\.\d{2}\.\d{4}$/
DottedExact(s) ==
    /\ Len(s) = 10
    /\ IsDigits(SubSeq(s, 1, 2)) /\ s[3] = "."
    /\ IsDigits(SubSeq(s, 4, 5)) /\ s[6] = "."
    /\ IsDigits(SubSeq(s, 7, 10))

\* mutant: the parts of DD.MM.YYYY are joined in the order they come
formatDateForFilename_Unswapped(dateStr) ==
    LET cleanDate == Trim(dateStr)
    IN IF IsoStart(cleanDate) THEN SubSeq(cleanDate, 1, 10)
       ELSE IF DottedExact(cleanDate)
       THEN LET parts == Split(cleanDate, ".")
            IN parts[1] \o <<"-">> \o parts[2] \o <<"-">> \o parts[3]
       ELSE <<>>

formatDateForFilename(dateStr) ==
    LET cleanDate == Trim(dateStr)
    IN IF IsoStart(cleanDate) THEN SubSeq(cleanDate, 1, 10)
       ELSE IF DottedExact(cleanDate)
       THEN LET parts == Split(cleanDate, ".")
            IN parts[3] \o <<"-">> \o parts[2] \o <<"-">> \o parts[1]
       ELSE <<>>

Dashes == <<"-", "-", "-">>

\* content.match(/^---[\s\S]*?---/): the end of the match, 0 when there is none
FrontmatterEnd(content) ==
    LET closes == {j \in 4..Len(content) : MatchesAt(content, j, Dashes)}
    IN IF ~MatchesAt(content, 1, Dashes) \/ closes = {} THEN 0
       ELSE (CHOOSE j \in closes : \A g \in closes : j <= g) + 2

\* frontmatterStr.split('\n').slice(1, -1)
FrontmatterLines(frontmatterStr) ==
    LET lines == Split(frontmatterStr, "\n")
    IN IF Len(lines) <= 2 THEN <<>> ELSE SubSeq(lines, 2, Len(lines) - 1)

\* the (\w+) of /^(\w+):\s*(.*)$/: length of the leading run of word characters
RECURSIVE KeyLen(_)
KeyLen(line) == IF line # <<>> /\ Head(line) \in WordChars THEN 1 + KeyLen(Tail(line)) ELSE 0

LineMatches(line) == KeyLen(line) >= 1 /\ KeyLen(line) < Len(line) /\ line[KeyLen(line) + 1] = ":"

LineKey(line) == SubSeq(line, 1, KeyLen(line))

LineValue(line) == Trim(SubSeq(line, KeyLen(line) + 2, Len(line)))

\* parseFrontmatter(...).created: the value of the last created line, empty
\* when there is none
parseFrontmatterCreated(frontmatterStr) ==
    LET lines == FrontmatterLines(frontmatterStr)
        hits == {i \in DOMAIN lines : LineMatches(lines[i]) /\ LineKey(lines[i]) = <<"created">>}
    IN IF hits = {} THEN <<>>
       ELSE LineValue(lines[CHOOSE i \in hits : \A j \in hits : j <= i])

MaxRenames == 2

\* dates a created value is written for
CalendarDates == [y : {<<"2", "0", "2", "3">>, <<"1", "9", "9", "9">>},
                  m : {<<"0", "8">>, <<"0", "1">>},
                  d : {<<"2", "0">>, <<"0", "1">>}]

Iso(c) == c.y \o <<"-">> \o c.m \o <<"-">> \o c.d

Dotted(c) == c.d \o <<".">> \o c.m \o <<".">> \o c.y

\* what may follow the date in a created value
TimeSuffix == <<"T", "1", "0">>

CreatedValues ==
    UNION {{Iso(c), Iso(c) \o TimeSuffix, Dotted(c), Dotted(c) \o TimeSuffix} : c \in CalendarDates}
    \cup {<<>>, <<"x">>, <<"2", "0", "2", "3">>}

CreatedLines == {<<"created", ":", " ">> \o v : v \in CreatedValues}

\* lines that set no created key
OtherLines == {<<"title", ":", " ", "x">>, <<" ", "created", ":", " ", "x">>}

LaterCreatedLines == {<<"created", ":">>, <<"created", ":", " ", "2", "0", "2", "3", "-", "0", "8", "-", "2", "0">>}

\* the lines between the delimiters
FmBodies ==
    {<<>>}
    \cup {<<l>> : l \in CreatedLines \cup OtherLines}
    \cup {<<o, c>> : o \in OtherLines, c \in CreatedLines}
    \cup {<<c, o>> : c \in CreatedLines, o \in OtherLines}
    \cup {<<c, l>> : c \in CreatedLines, l \in LaterCreatedLines}

RECURSIVE Join(_)
Join(lines) ==
    IF lines = <<>> THEN <<>>
    ELSE IF Len(lines) = 1 THEN lines[1]
    ELSE Head(lines) \o <<"\n">> \o Join(Tail(lines))

BodyLine == <<"x">>

\* a rule inside a line of the body, as in the separator row of a table
RuleInLine == <<"x", "-", "-", "-">>

\* a frontmatter block, a block that is not closed, lines without an opening
\* delimiter, and an unclosed block followed by a body line that holds a rule
NoteTexts ==
    {Join(<<Dashes>> \o fm \o <<Dashes, BodyLine>>) : fm \in FmBodies}
    \cup {Join(<<Dashes>> \o fm \o <<BodyLine>>) : fm \in FmBodies}
    \cup {Join(fm \o <<Dashes, BodyLine>>) : fm \in FmBodies}
    \cup {Join(<<Dashes>> \o fm \o <<RuleInLine>>) : fm \in FmBodies}

File(text, links) == [text |-> text, links |-> links]

NotePaths == [parent : {"/", "notes"}, base : {<<"n">>}, ext : {"md", "txt"}]

LinkerPath == [parent |-> "notes", base |-> <<"x">>, ext |-> "md"]

\* mutant: the parent folder is dropped from the new path
renamedFile_InRoot(path, datePrefix) ==
    [parent |-> "/", base |-> datePrefix \o <<" ">> \o path.base, ext |-> path.ext]

\* `${pathPrefix}${newName}.${file.extension}`
renamedFile(path, datePrefix) ==
    [parent |-> path.parent, base |-> datePrefix \o <<" ">> \o path.base, ext |-> path.ext]

\* frontmatter.created of a text, empty when there is no match or no value
CreatedOf(text) ==
    IF FrontmatterEnd(text) = 0 THEN <<>>
    ELSE parseFrontmatterCreated(SubSeq(text, 1, FrontmatterEnd(text)))

\* where the first rename would put the note
FirstTarget(path, text) == renamedFile(path, formatDateForFilename(CreatedOf(text)))

InitRename ==
    /\ BatchIdle
    /\ RenderIdle
    /\ GuardIdle
    /\ RunsIdle
    /\ rnCount = 0
    /\ updateLinks \in BOOLEAN
    /\ rnPath \in NotePaths
    /\ \E text \in NoteTexts, taken \in BOOLEAN, linked \in BOOLEAN :
           rnVault = [q \in {rnPath}
                             \cup (IF taken THEN {FirstTarget(rnPath, text)} ELSE {})
                             \cup (IF linked THEN {LinkerPath} ELSE {}) |->
                         IF q = rnPath THEN File(text, {})
                         ELSE IF q = LinkerPath THEN File(BodyLine, {rnPath})
                         ELSE File(BodyLine, {})]

RenameStay == <<prog, settings, exists, dirOrder, inputDir0, render, guard, runs, inputDir, attachDir,
                noteDir, pc, files, idx, processedCount, nextId, noteUUID, noteContent,
                attachementList, parsed, attIdx, dispatchLog, readLog, updateLinks>>

\* vault.read(file)
noteText == rnVault[rnPath].text

\* lines 384-388
RenameNoFrontmatter ==
    /\ rnCount < MaxRenames
    /\ FrontmatterEnd(noteText) = 0
    /\ Say(<<Notice("No frontmatter found in the note", <<>>, 0)>>)
    /\ rnCount' = rnCount + 1
    /\ UNCHANGED <<RenameStay, rnVault, rnPath>>

\* lines 390-396
RenameNoCreated ==
    /\ rnCount < MaxRenames
    /\ FrontmatterEnd(noteText) # 0
    /\ CreatedOf(noteText) = <<>>
    /\ Say(<<Notice("No created date found in frontmatter", <<>>, 0)>>)
    /\ rnCount' = rnCount + 1
    /\ UNCHANGED <<RenameStay, rnVault, rnPath>>

Redirect(links, from, to) == (links \ {from}) \cup (IF from \in links THEN {to} ELSE {})

\* fileManager.renameFile: the file is moved, and links to it in the other
\* files follow when the user has the host update them
renameFile(vault, from, to) ==
    [q \in (DOMAIN vault \ {from}) \cup {to} |->
        IF q = to THEN vault[from]
        ELSE IF updateLinks THEN File(vault[q].text, Redirect(vault[q].links, from, to))
        ELSE vault[q]]

\* mutant: a name that already starts with the prefix is left alone
RenameDone_DetectsPrefix ==
    /\ rnCount < MaxRenames
    /\ FrontmatterEnd(noteText) # 0
    /\ CreatedOf(noteText) # <<>>
    /\ LET datePrefix == formatDateForFilename(CreatedOf(noteText))
           target == renamedFile(rnPath, datePrefix)
       IN /\ target \notin DOMAIN rnVault
          /\ IF /\ Len(rnPath.base) > Len(datePrefix)
                /\ SubSeq(rnPath.base, 1, Len(datePrefix) + 1) = datePrefix \o <<" ">>
             THEN UNCHANGED <<rnVault, rnPath, notices>>
             ELSE /\ rnVault' = renameFile(rnVault, rnPath, target)
                  /\ rnPath' = target
                  /\ Say(<<Notice("Note renamed to", target.base, 0)>>)
    /\ rnCount' = rnCount + 1
    /\ UNCHANGED RenameStay

\* lines 398-415
RenameDone ==
    /\ rnCount < MaxRenames
    /\ FrontmatterEnd(noteText) # 0
    /\ CreatedOf(noteText) # <<>>
    /\ LET datePrefix == formatDateForFilename(CreatedOf(noteText))
           target == renamedFile(rnPath, datePrefix)
       IN /\ target \notin DOMAIN rnVault
          /\ rnVault' = renameFile(rnVault, rnPath, target)
          /\ rnPath' = target
          /\ Say(<<Notice("Note renamed to", target.base, 0)>>)
    /\ rnCount' = rnCount + 1
    /\ UNCHANGED RenameStay

\* lines 410-420: renameFile rejects, for a taken target path or, for a note
\* in the root folder, for the path `//<name>` that pathPrefix gives
RenameRejected ==
    /\ rnCount < MaxRenames
    /\ FrontmatterEnd(noteText) # 0
    /\ CreatedOf(noteText) # <<>>
    /\ \/ renamedFile(rnPath, formatDateForFilename(CreatedOf(noteText))) \in DOMAIN rnVault
       \/ rnPath.parent = "/"
    /\ Say(<<Notice("Error renaming note", <<>>, 0)>>)
    /\ rnCount' = rnCount + 1
    /\ UNCHANGED <<RenameStay, rnVault, rnPath>>

NextRename == RenameNoFrontmatter \/ RenameNoCreated \/ RenameDone \/ RenameRejected

SpecRename == InitRename /\ [][NextRename]_vars

\* one invocation of the command, and one that renamed the note
Invoked == rnCount' # rnCount

Renamed == rnPath' # rnPath

LastNotice == notices'[Len(notices')].msg

NothingRenamed == rnPath' = rnPath /\ rnVault' = rnVault

\* C16: for every calendar date, formatDateForFilename maps the created
\* value YYYY-MM-DD, with or without further characters after it, and the
\* created value DD.MM.YYYY of that date to the same prefix YYYY-MM-DD.
C16_BothFormatsGiveTheSamePrefix ==
    [][Renamed =>
          \A c \in CalendarDates :
              CreatedOf(noteText) \in {Iso(c), Iso(c) \o TimeSuffix, Dotted(c)} =>
                  rnPath'.base = Iso(c) \o <<" ">> \o rnPath.base]_vars

C16_Witness ==
    /\ rnCount = 1
    /\ \E c \in CalendarDates :
           /\ CreatedOf(noteText) = Dotted(c)
           /\ rnPath.base = Iso(c) \o <<" ", "n">>

InNeitherFormat(v) == ~IsoStart(v) /\ ~DottedExact(v)

\* C17: with a created value in neither accepted format the command reports
\* a failure and aborts: no rename is applied, the note keeps name and path.
C17_UnknownFormatAborts ==
    [][(Invoked /\ CreatedOf(noteText) # <<>> /\ InNeitherFormat(CreatedOf(noteText))) =>
          (NothingRenamed /\ LastNotice # "Note renamed to")]_vars

\* a leading block delimited by lines that consist of --- only
TextLines(text) == Split(text, "\n")

ClosingLines(text) == {k \in 2..Len(TextLines(text)) : TextLines(text)[k] = Dashes}

HasFrontmatterBlock(text) == TextLines(text)[1] = Dashes /\ ClosingLines(text) # {}

HasCreatedKey(text) ==
    \E k \in 2..Len(TextLines(text)) :
        /\ \A j \in ClosingLines(text) : k < j
        /\ Len(TextLines(text)[k]) >= 2
        /\ SubSeq(TextLines(text)[k], 1, 2) = <<"created", ":">>

\* C18: without a leading frontmatter block, or with a block that has no
\* created key, the command renames nothing and reports the condition: no
\* frontmatter in the first case, no created date in the second.
C18_NoFrontmatterOrNoCreatedKey ==
    [][Invoked =>
          /\ ~HasFrontmatterBlock(noteText) =>
                 (NothingRenamed /\ LastNotice = "No frontmatter found in the note")
          /\ (HasFrontmatterBlock(noteText) /\ ~HasCreatedKey(noteText)) =>
                 (NothingRenamed /\ LastNotice = "No created date found in frontmatter")]_vars

MovedAsNamed ==
    /\ rnPath' = renamedFile(rnPath, formatDateForFilename(CreatedOf(noteText)))
    /\ rnPath'.parent = rnPath.parent /\ rnPath'.ext = rnPath.ext
    /\ DOMAIN rnVault' = (DOMAIN rnVault \ {rnPath}) \cup {rnPath'}
    /\ rnPath \notin DOMAIN rnVault'
    /\ rnVault'[rnPath'] = rnVault[rnPath]

\* C19 as stated: a successful rename moves the note to
\* <datePrefix> <base>.<ext> in the same parent folder and changes nothing
\* else, every other file included.
C19_RenameChangesNothingElse ==
    [][Renamed =>
          /\ MovedAsNamed
          /\ \A q \in DOMAIN rnVault \ {rnPath} : rnVault'[q] = rnVault[q]]_vars

\* C19: a successful rename moves the note to <datePrefix> <base>.<ext> in
\* the same parent folder; no file remains at the old path, the note's
\* content, extension and parent folder are unchanged, and the other files
\* are unchanged but for links to the note, which may follow it to its new
\* path.
C19_RenameMovesNoteAndLinksOnly ==
    [][Renamed =>
          /\ MovedAsNamed
          /\ \A q \in DOMAIN rnVault \ {rnPath} :
                 /\ rnVault'[q].text = rnVault[q].text
                 /\ rnVault'[q].links \in {rnVault[q].links,
                                           Redirect(rnVault[q].links, rnPath, rnPath')}]_vars

C19_Witness ==
    /\ rnCount = 1
    /\ rnPath.parent = "notes"
    /\ rnPath.base # <<"n">>
    /\ LinkerPath \in DOMAIN rnVault
    /\ rnVault[LinkerPath].links = {rnPath}

\* ============================================ links, targets and note paths
\* the item has been dispatched and its relocations are still going on
RelocatingENM == prog = "enm" /\ pc \in {"enm_content", "enm_move", "enm_att", "enm_orig"}

\* C21: in createNoteFromFile no embed link is appended to the note content
\* before all relocations of the current item are done, and the links are
\* appended in the order in which the files were relocated.
C21_LinksAfterRelocationsInOrder ==
    [][prog = "enm" =>
          \* while files are relocated the content holds no link of this item
          /\ RelocatingENM => \A k \in DOMAIN noteContent :
                                  noteContent[k].t = "link" => noteContent[k].v[1] # noteUUID
          \* a relocation puts its target at the end of the list
          /\ DOMAIN attachDir' # DOMAIN attachDir =>
                 \E t \in DOMAIN attachDir' \ DOMAIN attachDir :
                     attachementList' = Append(attachementList, t)
          \* links are appended in one go, in list order, when the item ends
          /\ Len(Links(noteContent')) > Len(Links(noteContent)) =>
                 /\ pc = "enm_note" /\ pc' \in {"loop", "done"}
                 /\ attachDir' = attachDir
                 /\ noteContent' = noteContent \o [i \in DOMAIN attachementList |->
                                                       Link(attachementList[i])]]_vars

C21_Witness ==
    /\ prog = "enm" /\ pc = "loop" /\ processedCount = 1
    /\ Len(Links(noteContent)) = 2
    /\ Links(noteContent)[1].v = TargetName(noteUUID, AttX)
    /\ Links(noteContent)[2].v = TargetName(noteUUID, NameEml)
    /\ {Links(noteContent)[1].v, Links(noteContent)[2].v} \subseteq DOMAIN attachDir

\* the next relocation of the current mail: an attachment, or the mail itself
AttachmentPending == pc \in {"pf_att", "enm_att"} /\ attIdx <= Len(parsed) /\ Extname(parsed[attIdx]) # <<>>

OriginalPending ==
    \/ pc \in {"pf_att", "enm_att"} /\ attIdx > Len(parsed) /\ settings.attachEmlFile
    \/ pc = "enm_orig"

\* C22: with pairwise distinct ids every relocated file gets a target name
\* <runId>_<originalName> of its own, so no relocation targets a path that
\* is already taken in the attachment folder.
C22_RelocationTargetsAreFree ==
    /\ AttachmentPending => TargetName(noteUUID, parsed[attIdx]) \notin DOMAIN attachDir
    /\ OriginalPending => TargetName(noteUUID, cur) \notin DOMAIN attachDir

\* processEmlFile is about to be called on a mail that simpleParser rejects
ParseWillFail ==
    /\ DispatchablePF
    /\ Extname(cur) = <<".", "eml">>
    /\ IsTFile(cur) /\ ~inputDir[cur].parses

\* C23: when parsing the mail fails in processEmlFile only that item is
\* aborted and the file system is as before the item: no attachment written,
\* no note created or deleted, the mail still in the input folder;
\* processFiles goes on with the next entry.
C23_ParseFailureLeavesFilesAlone ==
    [][(ParseWillFail /\ idx' # idx) =>
          /\ attachDir' = attachDir
          /\ noteDir' = noteDir
          /\ inputDir' = inputDir
          /\ cur \in DOMAIN inputDir'
          /\ notices' = Append(notices, Notice("Error processing", cur, 0))
          /\ pc' = "loop" /\ idx' = idx + 1 /\ files' = files]_vars

C23_Witness ==
    /\ prog = "pf" /\ pc = "done"
    /\ Len(dispatchLog) = 2
    /\ ~inputDir0[dispatchLog[1][2]].parses
    /\ inputDir0[dispatchLog[1][2]].inVault
    /\ dispatchLog[1][1] = "eml"
    /\ noteDir # <<>>
    /\ dispatchLog[1][2] \in DOMAIN inputDir

\* ================================== the input folder changes during a run
MaxArrivals == 1

\* files put into the input folder from outside while a run is going on
ArrivalNames == {NamePdf, NameEml}

Newcomers == DOMAIN inputDir \ DOMAIN inputDir0

ArrivingEntries(name) == {e \in Variants(name) : e.inVault /\ e.parses /\ e.atts = <<>>}

RunInProgress == pc \notin {"idle", "done"}

\* mutant: the loop walks a live listing, an arriving file is added to it
FileAppears_Listed ==
    /\ RunInProgress
    /\ Cardinality(Newcomers) < MaxArrivals
    /\ \E name \in ArrivalNames \ (DOMAIN inputDir \cup DOMAIN inputDir0) :
         \E e \in ArrivingEntries(name) :
           /\ inputDir' = Put(inputDir, name, e)
           /\ files' = Append(files, name)
    /\ UNCHANGED <<world, attachDir, noteDir, pc, idx, processedCount, nextId, noteUUID,
                   noteContent, attachementList, parsed, attIdx, notices, dispatchLog, readLog>>

\* a new file is put into the input folder while the run is suspended at an
\* await; the array readdirSync returned is not touched
FileAppears ==
    /\ RunInProgress
    /\ Cardinality(Newcomers) < MaxArrivals
    /\ \E name \in ArrivalNames \ (DOMAIN inputDir \cup DOMAIN inputDir0) :
         \E e \in ArrivingEntries(name) :
           /\ inputDir' = Put(inputDir, name, e)
           /\ files' = files
    /\ UNCHANGED <<world, attachDir, noteDir, pc, idx, processedCount, nextId, noteUUID,
                   noteContent, attachementList, parsed, attIdx, notices, dispatchLog, readLog>>

NextArrive == NextENM \/ NextPF \/ FileAppears

SpecArrive == Init /\ [][NextArrive]_vars

\* C24: the input folder is listed exactly once per run, before the first
\* item; a file that appears in the input folder during the run is neither
\* processed nor counted by that run.
C24_ListingIsTakenOnce ==
    [][/\ files' # files => (pc = "idle" /\ files' = Readdir)
       /\ \A n \in Newcomers' :
              /\ n \notin Range(files')
              /\ n \notin readLog'
              /\ \A k \in DOMAIN dispatchLog' : dispatchLog'[k][2] # n
              /\ n \in DOMAIN inputDir'
       /\ \A k \in DOMAIN dispatchLog' : dispatchLog'[k][2] \in Range(files')
       /\ processedCount' <= Len(files')]_vars

C24_Witness ==
    /\ pc = "done"
    /\ Newcomers # {}
    /\ Len(dispatchLog) >= 1
    /\ \E i \in DOMAIN notices :
           notices[i].msg = "Processed files" /\ notices[i].n = Len(dispatchLog)

\* ============================================== a second run during a run
\* The ribbon is clicked once more while a run is under way: two runs share the
\* vault, each with its own locals.

\* what a run keeps to itself: the locals of processFiles / the fields of its
\* own ExtNoteManager instance
Locals ==
    [pc |-> pc, files |-> files, idx |-> idx, processedCount |-> processedCount,
     noteUUID |-> noteUUID, noteContent |-> noteContent,
     attachementList |-> attachementList, parsed |-> parsed, attIdx |-> attIdx]

SetLocals(l) ==
    /\ pc' = l.pc
    /\ files' = l.files
    /\ idx' = l.idx
    /\ processedCount' = l.processedCount
    /\ noteUUID' = l.noteUUID
    /\ noteContent' = l.noteContent
    /\ attachementList' = l.attachementList
    /\ parsed' = l.parsed
    /\ attIdx' = l.attIdx

FreshLocals ==
    [pc |-> "idle", files |-> <<>>, idx |-> 1, processedCount |-> 0, noteUUID |-> "",
     noteContent |-> <<>>, attachementList |-> <<>>, parsed |-> <<>>, attIdx |-> 1]

\* mutant: the callback keeps a run token and ignores a click during a run
Serialised_RunToken == RunInProgress

\* main.ts 41-52, part_004 40-42: the ribbon callback tests nothing before it
\* starts a run
Serialised == FALSE

Shared == <<prog, settings, exists, dirOrder, inputDir0, render, guard, rename, inputDir,
            attachDir, noteDir, nextId, notices, dispatchLog, readLog>>

\* processFiles line 89: the listed entry is gone, statSync throws, the
\* catch of lines 113-116 ends the run
PFStatFails ==
    /\ prog = "pf" /\ pc = "loop" /\ idx <= Len(files)
    /\ cur \notin DOMAIN inputDir
    /\ Say(<<Notice("Error", <<>>, 0)>>)
    /\ pc' = "done"
    /\ UNCHANGED <<world, inputDir, attachDir, noteDir, files, idx, processedCount, nextId,
                   noteUUID, noteContent, attachementList, parsed, attIdx, dispatchLog, readLog>>

\* the ribbon is clicked while a run waits at an await
ClickAgain ==
    /\ RunInProgress
    /\ clicks = 0
    /\ clicks' = clicks + 1
    /\ IF Serialised
       THEN UNCHANGED <<suspended, pc, files, idx, processedCount, noteUUID, noteContent,
                        attachementList, parsed, attIdx>>
       ELSE /\ suspended' = Append(suspended, Locals)
            /\ SetLocals(FreshLocals)
    /\ UNCHANGED Shared

\* the event loop goes on with another run
Resume ==
    /\ \E k \in DOMAIN suspended :
           /\ suspended[k].pc # "done"
           /\ suspended' = [suspended EXCEPT ![k] = Locals]
           /\ SetLocals(suspended[k])
    /\ UNCHANGED <<Shared, clicks>>

NextTwoRuns == NextENM \/ NextPF \/ PFStatFails \/ ClickAgain \/ Resume

\* the runs share an input folder that holds at most one entry: one entry is
\* enough for both runs to meet on it
InitTwoRuns == Init /\ Len(dirOrder) <= 1

SpecTwoRuns == InitTwoRuns /\ [][NextTwoRuns]_vars

DispatchedTwice ==
    \E j, k \in DOMAIN dispatchLog : j < k /\ dispatchLog[j][2] = dispatchLog[k][2]

\* C25: nothing serialises batch runs: a click during a run starts a second
\* run over the same input folder, and both runs can dispatch the same entry.
C25_SecondRunIsNotHeldBack ==
    [][/\ clicks' = Len(suspended')
       /\ clicks' # clicks =>
              /\ pc' = "idle"
              /\ suspended' = Append(suspended, Locals)
              /\ inputDir' = inputDir
       /\ (Len(suspended) > 0 /\ files' # files /\ Len(suspended') = Len(suspended)
              /\ suspended' = suspended) => files' = Readdir]_vars

C25_Witness ==
    /\ Len(suspended) = 1
    /\ suspended[1].pc \notin {"idle", "done"}
    /\ RunInProgress
    /\ DispatchedTwice

\* ======================================================= links and notes
\* C26: every embed link of a note written by processEmlFile or
\* processStandardFile names a path of the attachment folder at which a file
\* exists when the note is written.
C26_EmbedLinksResolve ==
    prog = "pf" =>
        \A n \in DOMAIN noteDir :
            \A i \in DOMAIN Links(noteDir[n]) : Links(noteDir[n])[i].v \in DOMAIN attachDir

NotePathOf(name) == IF prog = "pf" THEN createNameForNote(name) ELSE FinalNoteTitle(name)

\* C27: within one run two different dispatched input files never resolve to
\* the same note path, and a note that was written is neither deleted nor
\* replaced afterwards.
C27_NotesOfTwoItemsNeverCollide ==
    [][/\ \A j, k \in DOMAIN dispatchLog' :
              dispatchLog'[j][2] # dispatchLog'[k][2] =>
                  NotePathOf(dispatchLog'[j][2]) # NotePathOf(dispatchLog'[k][2])
       /\ \A n \in DOMAIN noteDir : n \in DOMAIN noteDir' /\ noteDir'[n] = noteDir[n]]_vars

\* C28: createNoteFromFile never destroys an input file that is no mail: its
\* content is at the original input path or at <runId>_<name> in the
\* attachment folder.
C28_NonMailInputIsNeverDestroyed ==
    prog = "enm" =>
        \A name \in DOMAIN inputDir0 :
            (inputDir0[name].kind = "file" /\ ~IsEml(name)) =>
                \/ name \in DOMAIN inputDir /\ inputDir[name] = inputDir0[name]
                \/ \E id \in Range(UuidPool) :
                       /\ TargetName(id, name) \in DOMAIN attachDir
                       /\ attachDir[TargetName(id, name)] = inputDir0[name].data

=============================================================================
